---- MODULE Spec2Model ----
(***************************************************************************)
(* A model of splunk_connector.core.SplunkConnect: a REST client that      *)
(* authenticates against a search service, submits search jobs, polls for  *)
(* completion and downloads results whole, in chunks, or as lazily         *)
(* evaluated partitions.                                                   *)
(*                                                                         *)
(* Strings are sequences of one-character strings, so that strip(),        *)
(* startswith(), %-formatting and base64 are computed the way Python       *)
(* computes them.                                                          *)
(***************************************************************************)
EXTENDS Integers, Sequences, FiniteSets, TLC

VARIABLES
    sanq,      \* _sanitize_query: the argument q
    sanout,    \* _sanitize_query: the returned string (NotRun before the call)
    url,       \* self.url
    key,       \* self.key
    head,      \* self.head: value of the Authorization header (Unset: no attribute)
    out,       \* HTTP requests sent by the most recent step
    last,      \* the most recent completed primitive call, with its outcome
    nops,      \* number of primitive calls made on the client
    pc,        \* position of the running composite call
    call,      \* which composite call is running
    jq,        \* its query argument
    chunksize, \* its chunksize argument
    sid,       \* its local variable sid
    svc,       \* the remote job
    clock,     \* time.time()
    time0,     \* wait_poll: time0
    done,      \* wait_poll: done
    count,     \* wait_poll / read_*: count
    npolls,    \* wait_poll: polls issued
    nsleeps,   \* wait_poll: sleeps completed
    polltime,  \* wait_poll: time spent inside the polls answered "not done"
    answer,    \* the status entry the service answered the latest poll with
    it,        \* read_pandas_iter: next value of range(0, count, chunksize)
    fetched,   \* results requests of the call, as <<sid, offset, count>>, in order
    tables,    \* tables produced by the call, in order
    parts,     \* read_dask: the delayed partitions, as <<sid, offset, count>>
    evals,     \* read_dask: per partition, number of completed evaluations
    inflight,  \* read_dask: partitions whose GET is sent but not yet answered
    presult    \* read_dask: per partition, the table of its latest evaluation

sanvars == <<sanq, sanout>>
clientvars == <<url, key, head>>
primvars == <<last, nops>>
waitvars == <<clock, time0, done, count, npolls, nsleeps, polltime, answer>>
jobvars == <<pc, call, jq, chunksize, sid, svc, it, fetched, tables>>
daskvars == <<parts, evals, inflight, presult>>
vars == <<sanvars, clientvars, out, primvars, waitvars, jobvars, daskvars>>

----------------------------------------------------------------------------
(* Bounds of the model *)

\* longest query, in tokens, given to _sanitize_query
MaxTokens == 3

----------------------------------------------------------------------------
(* Python values *)

\* None, distinct from every string (strings hold one-character elements)
None == <<"<None>">>
\* an attribute that was never assigned
Unset == <<"<unset>">>
NotRun == <<"<not run>">>

Truthy(x) == x # None /\ x # <<>>

\* "%s" % x
Str(x) == IF x = None THEN <<"N", "o", "n", "e">> ELSE x

StartsWith(s, p) == Len(s) >= Len(p) /\ SubSeq(s, 1, Len(p)) = p

Whitespace == {" ", "\t", "\n"}

RECURSIVE LStrip(_)
LStrip(s) == IF s # <<>> /\ Head(s) \in Whitespace THEN LStrip(Tail(s)) ELSE s

RECURSIVE RStrip(_)
RStrip(s) ==
    IF s # <<>> /\ s[Len(s)] \in Whitespace THEN RStrip(SubSeq(s, 1, Len(s) - 1)) ELSE s

\* str.strip()
Strip(s) == RStrip(LStrip(s))

RECURSIVE Concat(_)
Concat(ss) == IF ss = <<>> THEN <<>> ELSE Head(ss) \o Concat(Tail(ss))

SearchKw == <<"s", "e", "a", "r", "c", "h">>
Pipe == <<"|">>

----------------------------------------------------------------------------
(* _sanitize_query *)

SanitizeNoStrip(q) ==
    IF ~StartsWith(q, SearchKw) /\ ~StartsWith(q, Pipe)
    THEN SearchKw \o <<" ">> \o q
    ELSE q

_sanitize_query(q) ==
    LET s == Strip(q) IN
    IF ~StartsWith(s, SearchKw) /\ ~StartsWith(s, Pipe)
    THEN SearchKw \o <<" ">> \o s
    ELSE s

\* the pieces queries are built from
Tokens ==
    { SearchKw, <<"s", "e", "a", "r", "c">>, Pipe, <<"x">>, <<" ">>, <<"\t">>,
      <<"s", "t", "a", "t", "s">> }

TokenSeqs == UNION { [1..n -> Tokens] : n \in 0..MaxTokens }

Queries == { Concat(ts) : ts \in TokenSeqs }

----------------------------------------------------------------------------
(* base64.b64encode over the bytes of str.encode() *)

\* ord() of the characters credentials are built from
Ord(c) ==
    CASE c = "a" -> 97 [] c = "b" -> 98 [] c = ":" -> 58
      [] c = "N" -> 78 [] c = "o" -> 111 [] c = "n" -> 110 [] c = "e" -> 101

B64Alphabet ==
    << "A", "B", "C", "D", "E", "F", "G", "H", "I", "J", "K", "L", "M", "N", "O", "P",
       "Q", "R", "S", "T", "U", "V", "W", "X", "Y", "Z", "a", "b", "c", "d", "e", "f",
       "g", "h", "i", "j", "k", "l", "m", "n", "o", "p", "q", "r", "s", "t", "u", "v",
       "w", "x", "y", "z", "0", "1", "2", "3", "4", "5", "6", "7", "8", "9", "+", "/" >>

B64Pad == "="

B64Char(n) == B64Alphabet[n + 1]

\* one group of 1, 2 or 3 bytes, as 4 characters
B64Group(g) ==
    LET b1 == g[1]
        b2 == IF Len(g) >= 2 THEN g[2] ELSE 0
        b3 == IF Len(g) >= 3 THEN g[3] ELSE 0
        n == b1 * 65536 + b2 * 256 + b3
    IN  << B64Char(n \div 262144),
           B64Char((n \div 4096) % 64),
           IF Len(g) >= 2 THEN B64Char((n \div 64) % 64) ELSE B64Pad,
           IF Len(g) >= 3 THEN B64Char(n % 64) ELSE B64Pad >>

RECURSIVE B64Bytes(_)
B64Bytes(bs) ==
    IF bs = <<>> THEN <<>>
    ELSE IF Len(bs) <= 3 THEN B64Group(bs)
    ELSE B64Group(SubSeq(bs, 1, 3)) \o B64Bytes(SubSeq(bs, 4, Len(bs)))

\* base64.b64encode(code.encode()).decode()
b64encode(str) == B64Bytes([i \in 1..Len(str) |-> Ord(str[i])])

----------------------------------------------------------------------------
(* The client: __init__, auth_head, auth and the requests it builds *)

\* base_url
BaseUrl == "https://localhost:8089"

K1 == <<"k", "1">>
K2 == <<"k", "2">>
Sid1 == <<"sid1">>
Sid2 == <<"sid2">>
Sids == {Sid1, Sid2}

SplunkPrefix == <<"S", "p", "l", "u", "n", "k", " ">>
BasicPrefix == <<"B", "a", "s", "i", "c", " ">>

\* a request sent without a headers argument
NoAuth == <<"<no Authorization header>">>

\* the responses the service can give: the code never reads the status, and reads
\* the body through r.json() and subscripts (or r.content)
Statuses == {200, 500}
RespOf(status, kind, has, val) ==
    [status |-> status, kind |-> kind, has |-> has, val |-> val]
\* bodies: not JSON; JSON without the subscripted fields; JSON holding val there
Bodies(vals) ==
    LET none == CHOOSE v \in vals : TRUE IN
    { [kind |-> "notjson", has |-> FALSE, val |-> none],
      [kind |-> "json", has |-> FALSE, val |-> none] }
    \cup { [kind |-> "json", has |-> TRUE, val |-> v] : v \in vals }
Responses(vals) ==
    { RespOf(st, b.kind, b.has, b.val) : st \in Statuses, b \in Bodies(vals) }
NoResp == RespOf(0, "none", FALSE, None)

\* what r.json()[...] does with a response
JsonOutcome(resp) ==
    IF resp.kind # "json" THEN "JSONDecodeError"
    ELSE IF ~resp.has THEN "KeyError"
    ELSE "ok"

Request(method, endpoint, params, auth, data) ==
    [method |-> method, base |-> url, endpoint |-> endpoint, params |-> params,
     auth |-> auth, data |-> data, verify |-> FALSE]

LoginEndpoint == "/services/auth/login?output_mode=json"
SavedEndpoint == "/services/saved/searches?output_mode=json"
JobsEndpoint == "/services/search/jobs?output_mode=json"
JobEndpoint == "/services/search/jobs/{}?output_mode=json"
ResultsEndpoint == "/services/search/jobs/{}/results/?output_mode=csv&offset={}&count={}"

AuthHeadNoScheme(k, user, pw) ==
    IF Truthy(k)
    THEN [raised |-> FALSE, head |-> k]
    ELSE IF user = None /\ pw = None
    THEN [raised |-> TRUE, head |-> head]
    ELSE [raised |-> FALSE,
          head |-> BasicPrefix \o b64encode(Str(user) \o <<":">> \o Str(pw))]

\* the value auth_head stores in self.head, or the error it raises
AuthHeadValue(k, user, pw) ==
    IF Truthy(k)
    THEN [raised |-> FALSE, head |-> SplunkPrefix \o k]
    ELSE IF user = None /\ pw = None
    THEN [raised |-> TRUE, head |-> head]
    ELSE [raised |-> FALSE,
          head |-> BasicPrefix \o b64encode(Str(user) \o <<":">> \o Str(pw))]

Call(op, args, resp, outcome, ret) ==
    [op |-> op, args |-> args, resp |-> resp, outcome |-> outcome, ret |-> ret,
     prevkey |-> key, prevhead |-> head]

NoCall == [op |-> "none", args |-> <<>>, resp |-> NoResp, outcome |-> "ok",
           ret |-> None, prevkey |-> None, prevhead |-> Unset]

\* number of primitive calls made on one client
MaxOps == 2

KeyArgs == {None, K1, K2}
UserArgs == {None, <<"a">>}
PwArgs == {None, <<"b">>, <<"b", "b">>, <<"b", "b", "b">>}
SessionKeys == {<<>>, K1, K2}

\* auth_head(key, user, pw)
auth_head ==
    \E k \in KeyArgs, user \in UserArgs, pw \in PwArgs :
        LET r == AuthHeadValue(k, user, pw) IN
        /\ pc = "idle" /\ nops < MaxOps
        /\ head' = r.head
        /\ out' = <<>>
        /\ last' = Call("auth_head", <<k, user, pw>>, NoResp,
                        IF r.raised THEN "ValueError" ELSE "ok", None)
        /\ nops' = nops + 1
        /\ UNCHANGED <<url, key, sanvars, waitvars, jobvars, daskvars>>

\* auth(user, pw)
auth ==
    \E user \in UserArgs \ {None}, pw \in PwArgs \ {None},
       resp \in Responses(SessionKeys) :
        LET parsed == JsonOutcome(resp)
            r == AuthHeadValue(resp.val, None, None)
        IN
        /\ pc = "idle" /\ nops < MaxOps
        /\ out' = << Request("POST", LoginEndpoint, <<>>, NoAuth, <<user, pw>>) >>
        /\ IF parsed # "ok"
           THEN /\ UNCHANGED <<key, head>>
                /\ last' = Call("auth", <<user, pw>>, resp, parsed, None)
           ELSE /\ key' = resp.val
                /\ head' = r.head
                /\ last' = Call("auth", <<user, pw>>, resp,
                                IF r.raised THEN "ValueError" ELSE "ok", None)
        /\ nops' = nops + 1
        /\ UNCHANGED <<url, sanvars, waitvars, jobvars, daskvars>>

----------------------------------------------------------------------------
(* The primitive calls, each one blocking request and its answer *)

\* the dict of saved searches a well-formed answer holds
SavedDict == <<"<name -> search>">>

\* queries given to start_query and the read_* calls
JobQueries == { <<" ", "x", " ">>, Pipe \o <<" ", "x">> }

\* largest event count a job reports
MaxCount == 4

\* eventCount missing from the status entry
Absent == 0 - 1

\* content of a job status entry: <<isDone, eventCount>>
StatusEntries == BOOLEAN \X ({Absent} \cup 0..MaxCount)

\* out.get('eventCount', 0)
EventCount(entry) == IF entry[2] = Absent THEN 0 ELSE entry[2]

\* the pair poll_query returns
PollReturns(entry) == <<entry[1], EventCount(entry)>>

\* CSV payloads and other bodies the results endpoint can answer with
CsvHeader == "_raw"
Payloads == { <<CsvHeader>>, <<CsvHeader, "row1">>, <<"<error page>">> }
ResultResponses == { RespOf(st, "bytes", TRUE, v) : st \in Statuses, v \in Payloads }

Offsets == 0..1
Counts == 0..1

\* list_saved_searches()
list_saved_searches ==
    /\ pc = "idle" /\ nops < MaxOps
    /\ IF head = Unset
       THEN /\ out' = <<>>
            /\ last' = Call("list_saved_searches", <<>>, NoResp, "AttributeError", None)
       ELSE \E resp \in Responses({SavedDict}) :
            /\ out' = << Request("GET", SavedEndpoint, <<>>, head, None) >>
            /\ last' = Call("list_saved_searches", <<>>, resp, JsonOutcome(resp),
                            resp.val)
    /\ nops' = nops + 1
    /\ UNCHANGED <<clientvars, sanvars, waitvars, jobvars, daskvars>>

\* start_query(q)
start_query ==
    \E q \in JobQueries :
        /\ pc = "idle" /\ nops < MaxOps
        /\ IF head = Unset
           THEN /\ out' = <<>>
                /\ last' = Call("start_query", <<q>>, NoResp, "AttributeError", None)
           ELSE \E resp \in Responses(Sids) :
                /\ out' = << Request("POST", JobsEndpoint, <<>>, head,
                                     _sanitize_query(q)) >>
                /\ last' = Call("start_query", <<q>>, resp, JsonOutcome(resp), resp.val)
        /\ nops' = nops + 1
        /\ UNCHANGED <<clientvars, sanvars, waitvars, jobvars, daskvars>>

\* poll_query(sid)
poll_query ==
    \E s \in Sids :
        /\ pc = "idle" /\ nops < MaxOps
        /\ IF head = Unset
           THEN /\ out' = <<>>
                /\ last' = Call("poll_query", <<s>>, NoResp, "AttributeError", None)
           ELSE \E resp \in Responses(StatusEntries) :
                /\ out' = << Request("GET", JobEndpoint, <<s>>, head, None) >>
                /\ last' = Call("poll_query", <<s>>, resp, JsonOutcome(resp),
                                PollReturns(resp.val))
        /\ nops' = nops + 1
        /\ UNCHANGED <<clientvars, sanvars, waitvars, jobvars, daskvars>>

\* get_query_result(sid, offset, count)
get_query_result ==
    \E s \in Sids, offset \in Offsets, cnt \in Counts :
        /\ pc = "idle" /\ nops < MaxOps
        /\ IF head = Unset
           THEN /\ out' = <<>>
                /\ last' = Call("get_query_result", <<s, offset, cnt>>, NoResp,
                                "AttributeError", None)
           ELSE \E resp \in ResultResponses :
                /\ out' = << Request("GET", ResultsEndpoint, <<s, offset, cnt>>,
                                     head, None) >>
                /\ last' = Call("get_query_result", <<s, offset, cnt>>, resp, "ok",
                                resp.val)
        /\ nops' = nops + 1
        /\ UNCHANGED <<clientvars, sanvars, waitvars, jobvars, daskvars>>

----------------------------------------------------------------------------
(* The remote job, as the calls below see it *)

\* POLL_TIME: seconds to sleep between successive polls
POLL_TIME == 1
\* TIMEOUT: maximum seconds to wait for the query to finish (class attribute,
\* default 600; scaled down so that both sides of the ceiling are explored)
TIMEOUT == 4
\* longest time one poll request takes
MaxLatency == 2
\* largest chunksize
MaxChunk == 3
\* how often the execution engine evaluates one partition
MaxEvals == 2

\* a job that never finishes
Never == 0 - 1
\* numbers of polls a job answers "not done" before it answers "done"
Scripts == {Never} \cup 0..(TIMEOUT \div POLL_TIME + 2)

NoJob == [sid |-> None, notdone |-> 0, lats |-> {}, finished |-> {}, evals |-> 0]

Job(s, n, lats, e) ==
    [sid |-> s, notdone |-> n, lats |-> lats, finished |-> {}, evals |-> e]

\* does the job answer its next poll with isDone = true
AnswersDone == svc.notdone # Never /\ npolls >= svc.notdone

\* event counts a running job reports, and a finished one
RunningCounts == {Absent, 0, 1}
FinalCounts == {Absent} \cup 0..MaxCount

Min(a, b) == IF a <= b THEN a ELSE b

\* the CSV payload the results endpoint answers with for a finished job of n rows
\* (count = 0: no limit)
ResultPayload(n, offset, cnt) ==
    LET hi == IF cnt = 0 THEN n ELSE Min(n, offset + cnt) IN
    <<CsvHeader>> \o [i \in 1..(IF hi > offset THEN hi - offset ELSE 0) |->
                         ToString(offset + i)]

\* pd.read_csv(io.BytesIO(txt)): the first line names the columns
read_csv(txt) == [columns |-> <<Head(txt)>>, rows |-> Tail(txt)]

----------------------------------------------------------------------------
(* wait_poll *)

TimedOutGe(now, t0) == now - t0 >= TIMEOUT

\* time.time() - time0 > self.TIMEOUT
TimedOut(now, t0) == now - t0 > TIMEOUT

WaitStepNoRaise(d, now, t0) ==
    IF d THEN "returned"
    ELSE IF TimedOut(now, t0) THEN "returned"
    ELSE "sleep"

\* one pass of the loop body after poll_query has returned <<d, c>>
WaitStep(d, now, t0) ==
    IF d THEN "returned"
    ELSE IF TimedOut(now, t0) THEN "timeout"
    ELSE "sleep"

\* where the caller of wait_poll continues when it returns
AfterWait ==
    CASE call = "wait_poll" -> "returned"
      [] call = "read_pandas" -> "fetch"
      [] call = "read_pandas_iter" -> "iter"
      [] call = "read_dask" -> "meta"

\* wait_poll(sid) called directly: time0 = time.time()
CallWaitPoll ==
    \E s \in Sids, n \in Scripts :
        /\ pc = "idle"
        /\ call' = "wait_poll"
        /\ sid' = s
        /\ svc' = Job(s, n, 0..MaxLatency, 0)
        /\ time0' = clock
        /\ done' = FALSE /\ count' = 0 /\ npolls' = 0 /\ nsleeps' = 0
        /\ polltime' = 0
        /\ pc' = "poll"
        /\ out' = <<>>
        /\ last' = NoCall /\ nops' = MaxOps
        /\ UNCHANGED <<clientvars, sanvars, clock, answer, jq, chunksize, it,
                       fetched, tables, daskvars>>

PollKeepsCount ==
    \E lat \in svc.lats :
    \E e \in IF AnswersDone THEN {TRUE} \X FinalCounts ELSE {FALSE} \X RunningCounts :
        LET ret == PollReturns(e)
            now == clock + lat
            nxt == WaitStep(ret[1], now, time0)
        IN
        /\ pc = "poll" /\ head # Unset
        /\ out' = << Request("GET", JobEndpoint, <<sid>>, head, None) >>
        /\ clock' = now
        /\ answer' = e
        /\ svc' = IF e[1] THEN [svc EXCEPT !.finished = @ \cup {sid}] ELSE svc
        /\ done' = ret[1]
        /\ count' = IF npolls = 0 THEN ret[2] ELSE count
        /\ npolls' = npolls + 1
        /\ polltime' = IF ret[1] THEN polltime ELSE polltime + lat
        /\ pc' = IF nxt = "returned" THEN AfterWait ELSE nxt
        /\ UNCHANGED <<clientvars, sanvars, primvars, time0, nsleeps, call, jq,
                       chunksize, sid, it, fetched, tables, daskvars>>

\* done, count = self.poll_query(sid), answered well-formed, and the rest of the
\* loop body up to the sleep
Poll ==
    \E lat \in svc.lats :
    \E e \in IF AnswersDone THEN {TRUE} \X FinalCounts ELSE {FALSE} \X RunningCounts :
        LET ret == PollReturns(e)
            now == clock + lat
            nxt == WaitStep(ret[1], now, time0)
        IN
        /\ pc = "poll" /\ head # Unset
        /\ out' = << Request("GET", JobEndpoint, <<sid>>, head, None) >>
        /\ clock' = now
        /\ answer' = e
        /\ svc' = IF e[1] THEN [svc EXCEPT !.finished = @ \cup {sid}] ELSE svc
        /\ done' = ret[1]
        /\ count' = ret[2]
        /\ npolls' = npolls + 1
        /\ polltime' = IF ret[1] THEN polltime ELSE polltime + lat
        /\ pc' = IF nxt = "returned" THEN AfterWait ELSE nxt
        /\ UNCHANGED <<clientvars, sanvars, primvars, time0, nsleeps, call, jq,
                       chunksize, sid, it, fetched, tables, daskvars>>

\* poll_query raises: self.head is missing, or the answer is not JSON of the
\* expected shape
PollFails ==
    /\ pc = "poll"
    /\ IF head = Unset
       THEN out' = <<>> /\ npolls' = npolls
       ELSE /\ out' = << Request("GET", JobEndpoint, <<sid>>, head, None) >>
            /\ npolls' = npolls + 1
    /\ pc' = "failed"
    /\ UNCHANGED <<clientvars, sanvars, primvars, clock, time0, done, count, nsleeps,
                   polltime, answer, call, jq, chunksize, sid, svc, it, fetched,
                   tables, daskvars>>

\* time.sleep(self.POLL_TIME)
Sleep ==
    /\ pc = "sleep"
    /\ clock' = clock + POLL_TIME
    /\ nsleeps' = nsleeps + 1
    /\ pc' = "poll"
    /\ out' = <<>>
    /\ UNCHANGED <<clientvars, sanvars, primvars, time0, done, count, npolls,
                   polltime, answer, call, jq, chunksize, sid, svc, it, fetched,
                   tables, daskvars>>

----------------------------------------------------------------------------
(* read_pandas, read_pandas_iter, read_dask *)

NoTable == [columns |-> <<>>, rows |-> <<>>]

\* rows of the finished job: the event count its final status entry reported
JobRows == EventCount(answer)

\* get_dataframe(sid, offset, count) against the finished job
get_dataframe(offset, cnt) == read_csv(ResultPayload(JobRows, offset, cnt))

ResultsRequest(s, offset, cnt) ==
    Request("GET", ResultsEndpoint, <<s, offset, cnt>>, head, None)

\* list(range(a, b, step)), step >= 1
RECURSIVE Range(_, _, _)
Range(a, b, step) == IF a >= b THEN <<>> ELSE <<a>> \o Range(a + step, b, step)

\* the call starts: sid = self.start_query(q), then wait_poll(sid) is entered
CallRead ==
    \E kind \in {"read_pandas", "read_pandas_iter", "read_dask"}, q \in JobQueries,
       cs \in 1..MaxChunk, resp \in Responses(Sids), n \in Scripts :
        LET ok == head # Unset /\ JsonOutcome(resp) = "ok" IN
        /\ pc = "idle"
        /\ call' = kind
        /\ jq' = q
        /\ chunksize' = IF kind = "read_pandas" THEN 0 ELSE cs
        /\ out' = IF head = Unset THEN <<>>
                  ELSE << Request("POST", JobsEndpoint, <<>>, head, _sanitize_query(q)) >>
        /\ sid' = IF ok THEN resp.val ELSE None
        /\ svc' = IF ok THEN Job(resp.val, n, {0}, 1) ELSE NoJob
        /\ pc' = IF ok THEN "poll" ELSE "failed"
        /\ time0' = clock
        /\ done' = FALSE /\ count' = 0 /\ npolls' = 0 /\ nsleeps' = 0
        /\ polltime' = 0
        /\ it' = 0 /\ fetched' = <<>> /\ tables' = <<>>
        /\ last' = NoCall /\ nops' = MaxOps
        /\ UNCHANGED <<clientvars, sanvars, clock, answer, daskvars>>

\* read_pandas: return self.get_dataframe(sid, **kwargs)
FetchAll ==
    /\ pc = "fetch"
    /\ out' = << ResultsRequest(sid, 0, 0) >>
    /\ fetched' = Append(fetched, <<sid, 0, 0>>)
    /\ tables' = Append(tables, get_dataframe(0, 0))
    /\ pc' = "done"
    /\ UNCHANGED <<clientvars, sanvars, primvars, waitvars, call, jq, chunksize, sid,
                   svc, it, daskvars>>

IterYieldCount ==
    /\ pc = "iter" /\ it < count
    /\ out' = << ResultsRequest(sid, it, chunksize) >>
    /\ fetched' = Append(fetched, <<sid, it, chunksize>>)
    /\ tables' = Append(tables, get_dataframe(it, chunksize))
    /\ it' = it + 1
    /\ UNCHANGED <<clientvars, sanvars, primvars, waitvars, pc, call, jq, chunksize,
                   sid, svc, daskvars>>

\* read_pandas_iter: next() runs the loop body once for the next i of
\* range(0, count, chunksize)
IterYield ==
    /\ pc = "iter" /\ it < count
    /\ out' = << ResultsRequest(sid, it, chunksize) >>
    /\ fetched' = Append(fetched, <<sid, it, chunksize>>)
    /\ tables' = Append(tables, get_dataframe(it, chunksize))
    /\ it' = it + chunksize
    /\ UNCHANGED <<clientvars, sanvars, primvars, waitvars, pc, call, jq, chunksize,
                   sid, svc, daskvars>>

\* read_pandas_iter: the range is exhausted, the generator ends
IterStop ==
    /\ pc = "iter" /\ it >= count
    /\ out' = <<>>
    /\ pc' = "done"
    /\ UNCHANGED <<clientvars, sanvars, primvars, waitvars, call, jq, chunksize, sid,
                   svc, it, fetched, tables, daskvars>>

DaskPartsByRow(s, n, cs) ==
    LET offs == Range(0, n, 1) IN [k \in 1..Len(offs) |-> <<s, offs[k], cs>>]

\* the arguments of the delayed get_dataframe calls read_dask builds
DaskParts(s, n, cs) ==
    LET offs == Range(0, n, cs) IN [k \in 1..Len(offs) |-> <<s, offs[k], cs>>]

\* read_dask: meta = self.get_dataframe(sid, count=20)[:0], then the delayed
\* partitions are built and the lazy dataframe is returned
Meta ==
    /\ pc = "meta"
    /\ out' = << ResultsRequest(sid, 0, 20) >>
    /\ fetched' = Append(fetched, <<sid, 0, 20>>)
    /\ tables' = Append(tables, [get_dataframe(0, 20) EXCEPT !.rows = <<>>])
    /\ parts' = DaskParts(sid, count, chunksize)
    /\ evals' = [k \in 1..Len(parts') |-> 0]
    /\ presult' = [k \in 1..Len(parts') |-> NoTable]
    /\ inflight' = {}
    /\ pc' = "lazy"
    /\ UNCHANGED <<clientvars, sanvars, primvars, waitvars, call, jq, chunksize, sid,
                   svc, it>>

\* the engine starts evaluating partition k: get_query_result sends its GET
PartSend ==
    \E k \in 1..Len(parts) :
        /\ pc = "lazy"
        /\ k \notin inflight /\ evals[k] < svc.evals
        /\ out' = << ResultsRequest(parts[k][1], parts[k][2], parts[k][3]) >>
        /\ inflight' = inflight \cup {k}
        /\ UNCHANGED <<clientvars, sanvars, primvars, waitvars, jobvars, parts, evals,
                       presult>>

\* the GET of partition k is answered and parsed
PartRecv ==
    \E k \in inflight :
        /\ pc = "lazy"
        /\ out' = <<>>
        /\ presult' = [presult EXCEPT ![k] = get_dataframe(parts[k][2], parts[k][3])]
        /\ evals' = [evals EXCEPT ![k] = @ + 1]
        /\ inflight' = inflight \ {k}
        /\ UNCHANGED <<clientvars, sanvars, primvars, waitvars, jobvars, parts>>

----------------------------------------------------------------------------
(* Specifications *)

\* q = _sanitize_query(q)
SanitizeCall ==
    /\ sanout = NotRun
    /\ sanout' = _sanitize_query(sanq)
    /\ UNCHANGED <<clientvars, out, primvars, waitvars, jobvars, daskvars>>
    /\ UNCHANGED sanq

\* __init__(base_url, key)
Construct(k) ==
    /\ url = BaseUrl
    /\ key = k
    /\ head = IF Truthy(k) THEN SplunkPrefix \o k ELSE Unset

InitSan == sanq = <<>> /\ sanout = NotRun

InitIdle ==
    /\ out = <<>> /\ last = NoCall /\ nops = 0
    /\ pc = "idle" /\ call = "none" /\ jq = <<>> /\ chunksize = 0 /\ sid = None
    /\ svc = NoJob
    /\ clock = 0 /\ time0 = 0 /\ done = FALSE /\ count = 0
    /\ npolls = 0 /\ nsleeps = 0 /\ polltime = 0 /\ answer = <<FALSE, Absent>>
    /\ it = 0 /\ fetched = <<>> /\ tables = <<>>
    /\ parts = <<>> /\ evals = <<>> /\ inflight = {} /\ presult = <<>>

InitSanitize ==
    /\ sanq \in Queries /\ sanout = NotRun
    /\ Construct(None)
    /\ InitIdle

InitClient ==
    /\ InitSan
    /\ \E k \in {None, K1} : Construct(k)
    /\ InitIdle

\* the state in which read_dask(q, chunksize) has returned its lazy dataframe
InitDask ==
    /\ InitSan
    /\ Construct(K1)
    /\ last = NoCall /\ nops = MaxOps
    /\ pc = "lazy" /\ call = "read_dask" /\ jq \in JobQueries
    /\ chunksize \in 1..MaxChunk
    /\ sid \in Sids
    /\ out = << ResultsRequest(sid, 0, 20) >>
    /\ count \in 0..MaxCount
    /\ answer = <<TRUE, count>>
    /\ svc = [Job(sid, 0, {0}, MaxEvals) EXCEPT !.finished = {sid}]
    /\ clock = 0 /\ time0 = 0 /\ done = TRUE
    /\ npolls = 1 /\ nsleeps = 0 /\ polltime = 0
    /\ it = 0
    /\ fetched = << <<sid, 0, 20>> >>
    /\ tables = << [get_dataframe(0, 20) EXCEPT !.rows = <<>>] >>
    /\ parts = DaskParts(sid, count, chunksize)
    /\ evals = [k \in 1..Len(parts) |-> 0]
    /\ presult = [k \in 1..Len(parts) |-> NoTable]
    /\ inflight = {}

NextSanitize == SanitizeCall

NextClient ==
    \/ auth_head
    \/ auth
    \/ list_saved_searches
    \/ start_query
    \/ poll_query
    \/ get_query_result

NextWait == CallWaitPoll \/ Poll \/ PollFails \/ Sleep

NextRead ==
    \/ CallRead
    \/ Poll
    \/ PollFails
    \/ Sleep
    \/ FetchAll
    \/ IterYield
    \/ IterStop
    \/ Meta
    \/ PartSend
    \/ PartRecv

NextDask == PartSend \/ PartRecv

\* _sanitize_query on every query of the bounded set
SpecSanitize == InitSanitize /\ [][NextSanitize]_vars

\* the primitive calls on one client, in any order
SpecClient == InitClient /\ [][NextClient]_vars

\* wait_poll(sid) called on a client; every poll is answered and every sleep ends
SpecWait ==
    InitClient /\ [][NextWait]_vars /\ WF_vars(Poll \/ PollFails) /\ WF_vars(Sleep)

\* one read_pandas / read_pandas_iter / read_dask call, to its end
SpecRead == InitClient /\ [][NextRead]_vars

\* the partitions of a lazy dataframe, evaluated in any order and interleaving
SpecDask == InitDask /\ [][NextDask]_vars

----------------------------------------------------------------------------
(* _sanitize_query: claim C7 *)

\* q without its leading and trailing whitespace, by position
Trimmed(q) ==
    LET idx == { i \in 1..Len(q) : q[i] \notin Whitespace } IN
    IF idx = {} THEN <<>>
    ELSE SubSeq(q, CHOOSE i \in idx : \A j \in idx : i <= j,
                   CHOOSE i \in idx : \A j \in idx : i >= j)

\* C7: _sanitize_query(q) is strip(q) when strip(q) starts with 'search' or '|',
\* and 'search ' followed by strip(q) otherwise; the result always starts with
\* 'search' or '|'; the client's url, key and header are as they were.
C7_SanitizeQuery ==
    sanout # NotRun =>
        LET s == Trimmed(sanq) IN
        /\ (StartsWith(s, SearchKw) \/ StartsWith(s, Pipe)) => sanout = s
        /\ ~(StartsWith(s, SearchKw) \/ StartsWith(s, Pipe)) =>
               sanout = SearchKw \o <<" ">> \o s
        /\ StartsWith(sanout, SearchKw) \/ StartsWith(sanout, Pipe)
        /\ url = BaseUrl /\ key = None /\ head = Unset

\* " stats\t" has been sanitized to "search stats"
C7_Witness ==
    /\ sanq = <<" ", "s", "t", "a", "t", "s", "\t">>
    /\ sanout = SearchKw \o <<" ", "s", "t", "a", "t", "s">>

----------------------------------------------------------------------------
(* wait_poll: claims C1 and C2 *)

Elapsed == clock - time0

WaitEnded == pc \in {"returned", "timeout"}

\* what holds of wait_poll at every moment: the timeout error is raised only with
\* more than TIMEOUT elapsed after a poll answered "not done", the loop goes on to
\* sleep only with at most TIMEOUT elapsed, a job that never reports isDone never
\* makes it return, and the polls are bounded
C1_Safety ==
    call = "wait_poll" =>
        /\ pc = "timeout" => (Elapsed > TIMEOUT /\ ~done)
        /\ pc = "sleep" => (Elapsed <= TIMEOUT /\ ~done)
        /\ svc.notdone = Never => pc # "returned"
        /\ npolls <= TIMEOUT \div POLL_TIME + 2

\* C1: against a job that never reports isDone, with every poll answered and every
\* sleep advancing the clock by POLL_TIME, wait_poll ends with the timeout error,
\* raised at the first poll after which more than TIMEOUT has elapsed and never
\* with at most TIMEOUT elapsed, and it never returns normally.
C1_WaitPollTimesOut ==
    /\ []C1_Safety
    /\ (call = "wait_poll" /\ svc.notdone = Never /\ pc \in {"poll", "sleep"})
           ~> (pc \in {"timeout", "failed"})

\* the timeout error after the longest run of polls that take no time
C1_Witness ==
    /\ call = "wait_poll" /\ pc = "timeout" /\ svc.notdone = Never
    /\ polltime = 0
    /\ npolls = TIMEOUT \div POLL_TIME + 2
    /\ nsleeps = npolls - 1

\* C2 as stated: with n * POLL_TIME <= TIMEOUT, a job answering n polls "not done"
\* and then "done" with event count c makes wait_poll issue n + 1 polls, sleep n
\* times and return (true, c).
C2_Original ==
    (/\ call = "wait_poll" /\ WaitEnded
     /\ svc.notdone # Never
     /\ svc.notdone * POLL_TIME <= TIMEOUT)
    => /\ pc = "returned"
       /\ npolls = svc.notdone + 1
       /\ nsleeps = svc.notdone
       /\ done /\ count = EventCount(answer)

\* C2, amended: the same, for every n such that n * POLL_TIME plus the time the
\* first n polls themselves take is at most TIMEOUT; wait_poll then returns no
\* earlier than n poll intervals after it was entered.
C2_WaitPollReturns ==
    (/\ call = "wait_poll" /\ WaitEnded
     /\ svc.notdone # Never
     /\ svc.notdone * POLL_TIME + polltime <= TIMEOUT)
    => /\ pc = "returned"
       /\ npolls = svc.notdone + 1
       /\ nsleeps = svc.notdone
       /\ done /\ count = EventCount(answer)
       /\ Elapsed >= svc.notdone * POLL_TIME

\* three polls answered "not done" with one event, then "done" with MaxCount events
C2_Witness ==
    /\ call = "wait_poll" /\ pc = "returned"
    /\ svc.notdone = 3 /\ npolls = 4 /\ nsleeps = 3
    /\ polltime = 1
    /\ answer = <<TRUE, MaxCount>> /\ count = MaxCount

----------------------------------------------------------------------------
(* read_pandas_iter: claim C3 *)

\* ceil(n / cs)
CeilDiv(n, cs) == (n + cs - 1) \div cs

\* rows lo+1 .. hi of the job, as the results endpoint names them
RowsBetween(lo, hi) == [i \in 1..(hi - lo) |-> ToString(lo + i)]

\* C3: a fully consumed read_pandas_iter(q, chunksize) over a finished job of N
\* events yields exactly ceil(N / chunksize) tables; the k-th is fetched with
\* offset k * chunksize and count chunksize, in increasing order of offset, every
\* offset below N, and none at all when N = 0. Before the end the fetches made
\* so far are a prefix of that list.
C3_ChunkedIteration ==
    (call = "read_pandas_iter" /\ pc \in {"iter", "done"}) =>
        LET n == JobRows
            chunks == CeilDiv(n, chunksize)
        IN
        /\ Len(fetched) <= chunks /\ Len(tables) = Len(fetched)
        /\ pc = "done" => Len(fetched) = chunks
        /\ n = 0 => tables = <<>>
        /\ \A k \in 1..Len(fetched) :
              /\ fetched[k] = <<sid, (k - 1) * chunksize, chunksize>>
              /\ fetched[k][2] < n
              /\ k > 1 => fetched[k][2] > fetched[k - 1][2]
              /\ tables[k].rows =
                     RowsBetween((k - 1) * chunksize, Min(n, k * chunksize))

\* 4 events in chunks of 3: two tables, the second one short
C3_Witness ==
    /\ call = "read_pandas_iter" /\ pc = "done"
    /\ count = 4 /\ chunksize = 3
    /\ Len(tables) = 2
    /\ fetched[2][2] = 3
    /\ tables[2].rows = <<"4">>

----------------------------------------------------------------------------
(* read_pandas, read_pandas_iter, read_dask: claim C9 *)

IsResultsRequest(r) == r.endpoint = ResultsEndpoint

\* C9: in a read_* call every results request names the sid the call's own
\* submission returned and is sent only after a poll of that sid reported
\* isDone = true; a call whose submission or wait_poll failed sends none.
C9_SubmitPollFetch ==
    call \in {"read_pandas", "read_pandas_iter", "read_dask"} =>
        /\ \A i \in 1..Len(out) :
              IsResultsRequest(out[i]) =>
                  /\ svc.sid # None
                  /\ out[i].params[1] = svc.sid
                  /\ svc.sid \in svc.finished
                  /\ npolls >= 1
        /\ \A i \in 1..Len(fetched) :
              fetched[i][1] = svc.sid /\ svc.sid \in svc.finished
        /\ pc \in {"timeout", "failed"} =>
              /\ fetched = <<>> /\ tables = <<>>
              /\ \A i \in 1..Len(out) : ~IsResultsRequest(out[i])
        /\ pc \in {"fetch", "iter", "meta", "lazy", "done"} =>
              done /\ sid = svc.sid /\ sid \in svc.finished

\* read_dask sends its first results request after a job that needed two polls
C9_Witness ==
    /\ call = "read_dask" /\ pc = "lazy"
    /\ npolls = 2 /\ nsleeps = 1
    /\ Len(out) = 1 /\ IsResultsRequest(out[1])
    /\ out[1].params = <<sid, 0, 20>>

----------------------------------------------------------------------------
(* read_dask: claim C8 *)

\* C8: the partitions read_dask builds for a finished job of N events are the
\* descriptors (sid, k * chunksize, chunksize), k = 0 .. ceil(N / chunksize) - 1;
\* however their evaluations are ordered, interleaved or repeated, each sends the
\* GET of its own descriptor, the client's url, key and header stay as they were,
\* and each partition's table is the one in-order evaluation gives: the rows of
\* its range.
C8_PartitionsIndependent ==
    (call = "read_dask" /\ pc = "lazy") =>
        LET n == JobRows
            chunks == CeilDiv(n, chunksize)
        IN
        /\ parts = [k \in 1..chunks |-> <<sid, (k - 1) * chunksize, chunksize>>]
        /\ url = BaseUrl /\ key = K1 /\ head = SplunkPrefix \o K1
        /\ \A i \in 1..Len(out) :
              IsResultsRequest(out[i]) =>
                  /\ out[i].method = "GET" /\ out[i].base = BaseUrl
                  /\ out[i].auth = SplunkPrefix \o K1
                  /\ \/ out[i].params = <<sid, 0, 20>>
                     \/ \E k \in inflight : out[i].params = parts[k]
        /\ \A k \in 1..Len(parts) :
              IF evals[k] = 0
              THEN presult[k] = NoTable
              ELSE presult[k] =
                       [columns |-> <<CsvHeader>>,
                        rows |-> RowsBetween((k - 1) * chunksize,
                                             Min(n, k * chunksize))]

\* the second partition evaluated twice while the first has not been evaluated
\* and the third is in flight
C8_Witness ==
    /\ call = "read_dask" /\ pc = "lazy"
    /\ Len(parts) = 3
    /\ evals[1] = 0 /\ evals[2] = 2
    /\ 3 \in inflight
    /\ presult[2].rows # <<>>

----------------------------------------------------------------------------
(* auth_head and auth: claims C4 and C10 *)

\* the inverse of b64encode on the characters of Ord: the byte values of a
\* base64 text, padding removed
B64Index(c) == CHOOSE n \in 0..63 : B64Alphabet[n + 1] = c

RECURSIVE B64Decode(_)
B64Decode(cs) ==
    IF cs = <<>> THEN <<>>
    ELSE LET pad == Cardinality({ i \in 3..4 : cs[i] = B64Pad })
             v(i) == IF cs[i] = B64Pad THEN 0 ELSE B64Index(cs[i])
             n == v(1) * 262144 + v(2) * 4096 + v(3) * 64 + v(4)
             bytes == << n \div 65536, (n \div 256) % 256, n % 256 >>
         IN  SubSeq(bytes, 1, 3 - pad) \o B64Decode(SubSeq(cs, 5, Len(cs)))

Bytes(str) == [i \in 1..Len(str) |-> Ord(str[i])]

\* C4 as stated: auth_head(key, user, password) without a key and without both
\* user and password fails with an invalid-argument error and leaves the header
\* as it was; otherwise it stores 'Splunk <key>' or 'Basic <base64(user:password)>'.
C4_Original ==
    last.op = "auth_head" =>
        LET k == last.args[1]
            user == last.args[2]
            pw == last.args[3]
        IN
        IF Truthy(k)
        THEN last.outcome = "ok" /\ head = SplunkPrefix \o k
        ELSE IF user # None /\ pw # None
        THEN /\ last.outcome = "ok"
             /\ StartsWith(head, BasicPrefix)
             /\ B64Decode(SubSeq(head, Len(BasicPrefix) + 1, Len(head)))
                    = Bytes(user \o <<":">> \o pw)
        ELSE last.outcome = "ValueError" /\ head = last.prevhead

\* C10 as stated: auth(user, password) stores the session key k of the login
\* response and sets the header to 'Splunk k'; when the response lacks the
\* session key it fails and leaves key and header as they were.
C10_Original ==
    last.op = "auth" =>
        IF last.resp.kind = "json" /\ last.resp.has
        THEN /\ last.outcome = "ok"
             /\ key = last.resp.val
             /\ head = SplunkPrefix \o last.resp.val
        ELSE /\ last.outcome # "ok"
             /\ key = last.prevkey
             /\ head = last.prevhead

----------------------------------------------------------------------------
(* The requests sent: claims C5 and C6 *)

IsBase64(cs) ==
    /\ cs # <<>> /\ Len(cs) % 4 = 0
    /\ \A i \in 1..Len(cs) :
          \/ \E n \in 1..64 : B64Alphabet[n] = cs[i]
          \/ /\ cs[i] = B64Pad /\ i >= Len(cs) - 1
             /\ \A j \in i..Len(cs) : cs[j] = B64Pad

\* 'Splunk <key>' or 'Basic <base64>'
HasAuthForm(h) ==
    \/ StartsWith(h, SplunkPrefix) /\ Len(h) > Len(SplunkPrefix)
    \/ /\ StartsWith(h, BasicPrefix)
       /\ IsBase64(SubSeq(h, Len(BasicPrefix) + 1, Len(h)))

\* C5 as stated: every request sent carries an Authorization header of the form
\* 'Splunk <key>' or 'Basic <base64>'.
C5_Original == \A i \in 1..Len(out) : HasAuthForm(out[i].auth)

\* C5, amended: every request other than the login request of auth carries the
\* stored header, of the form 'Splunk <key>' or 'Basic <base64>'; the login
\* request carries none; a client whose header is not set sends no request
\* other than the login request.
C5_RequestsAuthorized ==
    /\ \A i \in 1..Len(out) :
          IF out[i].endpoint = LoginEndpoint
          THEN out[i].auth = NoAuth
          ELSE HasAuthForm(out[i].auth) /\ out[i].auth = head
    /\ (last.prevhead = Unset /\ last.op \notin {"none", "auth", "auth_head"}) =>
           (out = <<>> /\ last.outcome = "AttributeError")

\* after auth_head(user="a", pw="b"), list_saved_searches sends 'Basic YTpi'
C5_Witness ==
    /\ last.op = "list_saved_searches"
    /\ Len(out) = 1
    /\ out[1].auth = BasicPrefix \o <<"Y", "T", "p", "i">>

IsSuccess(status) == status >= 200 /\ status <= 299

\* C6 as stated: list_saved_searches, start_query, poll_query and
\* get_query_result fail, on that call and returning nothing, when the answer has
\* a non-2xx status or a body that is not JSON of the expected shape; the request
\* is sent exactly once.
C6_Original ==
    (/\ last.op \in {"list_saved_searches", "start_query", "poll_query",
                     "get_query_result"}
     /\ last.resp # NoResp
     /\ \/ ~IsSuccess(last.resp.status)
        \/ last.op # "get_query_result" /\ JsonOutcome(last.resp) # "ok")
    => (last.outcome # "ok" /\ Len(out) = 1)

====
